---- MODULE Spec2Model ----
(***************************************************************************)
(* A model of pastpapers.py: the PDFScraper class (page fetch, link        *)
(* extraction, single download, the per-year job) and download_all_years   *)
(* in its sequential and its thread-pool mode.                             *)
(*                                                                         *)
(* Text.  A Python string is a sequence of tokens.  File names, hrefs and  *)
(* queries are spelled one character per token; a token that no operation  *)
(* of the program looks into (a scheme, a host name, the year of a listing *)
(* directory) is kept whole.  "/" , "?" and ":" are always tokens of their *)
(* own.                                                                    *)
(*                                                                         *)
(* Filesystem.  dirs is the set of existing directories, files maps each   *)
(* existing file path to its content: the URL it was streamed from and the *)
(* number of body chunks on disk.                                          *)
(***************************************************************************)
EXTENDS Integers, Sequences, FiniteSets, TLC

VARIABLES
  start_year,      \* download_all_years argument
  end_year,        \* download_all_years argument
  max_workers,     \* PDFScraper.max_workers
  served,          \* the remote site: year -> response of that year's listing page
  fs0,             \* the filesystem as it was when the scraper was constructed
  dirs,            \* existing directories
  files,           \* existing files: path -> content
  use_threads,     \* download_all_years argument of the current call
  main_pc,         \* position of the thread running download_all_years
  main_exc,        \* the exception download_all_years ended with ("" if none)
  years,           \* local: the descending list of years
  k,               \* local: index of the loop over years / over future_to_year
  summary,         \* local: the dict that is returned
  queue,           \* the executor's work queue (FIFO of submitted years)
  seq_outcome,     \* what the use_threads=False call ended with
  pc,              \* year -> position of that year's download_pdfs_for_year
  html_content,    \* year -> local of download_pdfs_for_year
  pdf_links,       \* year -> local of download_pdfs_for_year
  idx,             \* year -> index of the link the for loop is at
  successful_downloads,  \* year -> local of download_pdfs_for_year
  need_mkdir,      \* year -> result of os.path.exists(year_folder), negated
  outcome,         \* year -> what the job returned or raised
  started,         \* year -> how many times a thread began the year's job
  calls            \* year -> the download_pdf invocations of the job, in order

vars == <<start_year, end_year, max_workers, served, fs0, dirs, files,
          use_threads, main_pc, main_exc, years, k, summary, queue,
          seq_outcome, pc, html_content, pdf_links, idx,
          successful_downloads, need_mkdir, outcome, started, calls>>

config == <<start_year, end_year, max_workers, served, fs0>>
job_locals == <<html_content, pdf_links, idx, successful_downloads,
                need_mkdir, outcome, calls>>
main_locals == <<main_exc, years, k, summary, seq_outcome>>

---------------------------------------------------------------------------
(* Bounds of the model and constants of the program *)

\* the year window spans at most this many years
MaxYears == 2

\* every document body is streamed in this many chunks
BodyChunks == 2

\* argparse default of --end-year
DefaultEndYear == 2024

\* argparse default of --max-workers
DefaultMaxWorkers == 3

YearRange == (DefaultEndYear - MaxYears + 1)..DefaultEndYear

\* argparse default of --school
school_code == "sci"

\* argparse default of --base-url
base_url == <<"https", ":", "/", "/", "exampapers.must.ac.ke">>

\* default of PDFScraper.__init__(output_folder=...)
output_folder == <<"exam_papers">>

---------------------------------------------------------------------------
(* Strings *)

Min(a, b) == IF a <= b THEN a ELSE b

UpperToLower ==
  [c \in {"A","B","C","D","E","F","G","H","I","J","K","L","M","N","O","P",
          "Q","R","S","T","U","V","W","X","Y","Z"} |->
     CASE c = "A" -> "a" [] c = "B" -> "b" [] c = "C" -> "c" [] c = "D" -> "d"
       [] c = "E" -> "e" [] c = "F" -> "f" [] c = "G" -> "g" [] c = "H" -> "h"
       [] c = "I" -> "i" [] c = "J" -> "j" [] c = "K" -> "k" [] c = "L" -> "l"
       [] c = "M" -> "m" [] c = "N" -> "n" [] c = "O" -> "o" [] c = "P" -> "p"
       [] c = "Q" -> "q" [] c = "R" -> "r" [] c = "S" -> "s" [] c = "T" -> "t"
       [] c = "U" -> "u" [] c = "V" -> "v" [] c = "W" -> "w" [] c = "X" -> "x"
       [] c = "Y" -> "y" [] c = "Z" -> "z"]

\* str.lower()
Lower(s) ==
  [i \in 1..Len(s) |-> IF s[i] \in DOMAIN UpperToLower THEN UpperToLower[s[i]] ELSE s[i]]

\* str.endswith(suffix)
EndsWith(s, suffix) ==
  /\ Len(s) >= Len(suffix)
  /\ SubSeq(s, Len(s) - Len(suffix) + 1, Len(s)) = suffix

DotPdf == <<".", "p", "d", "f">>

\* the characters the pattern [^\w\.-] leaves alone: \w, "." and "-"
KeptChars ==
  {"a","b","c","d","e","f","g","h","i","j","k","l","m","n","o","p","q","r",
   "s","t","u","v","w","x","y","z"} \cup DOMAIN UpperToLower
  \cup {"0","1","2","3","4","5","6","7","8","9","_", ".", "-"}

\* position of the last occurrence of token c in s, 0 if there is none
LastIndexOf(s, c) ==
  LET hits == {i \in 1..Len(s) : s[i] = c}
  IN IF hits = {} THEN 0 ELSE CHOOSE i \in hits : \A j \in hits : j <= i

\* position of the first occurrence of token c in s, 0 if there is none
FirstIndexOf(s, c) ==
  LET hits == {i \in 1..Len(s) : s[i] = c}
  IN IF hits = {} THEN 0 ELSE CHOOSE i \in hits : \A j \in hits : i <= j

\* os.path.basename
basename(s) == SubSeq(s, LastIndexOf(s, "/") + 1, Len(s))

\* re.sub(r'[^\w\.-]', '_', filename)
Sanitize(s) == [i \in 1..Len(s) |-> IF s[i] \in KeptChars THEN s[i] ELSE "_"]

\* the filename download_pdf derives from a URL
FilenameOf(url) ==
  LET cleaned == Sanitize(basename(url))
  IN IF EndsWith(Lower(cleaned), DotPdf) THEN cleaned ELSE cleaned \o DotPdf

---------------------------------------------------------------------------
(* URLs *)

HasScheme(u) == Len(u) >= 4 /\ u[2] = ":" /\ u[3] = "/" /\ u[4] = "/"

\* scheme://host of an absolute URL
Origin(u) == SubSeq(u, 1, Min(5, Len(u)))

\* path and query of an absolute URL
AfterOrigin(u) == SubSeq(u, 6, Len(u))

\* the path without its query
PathOf(p) ==
  LET q == FirstIndexOf(p, "?") IN IF q = 0 THEN p ELSE SubSeq(p, 1, q - 1)

\* urllib.parse.urljoin, for references without dot segments and fragments
urljoin(base, url) ==
  IF url = <<>> THEN base
  ELSE IF HasScheme(url) THEN url
  ELSE IF url[1] = "/" THEN Origin(base) \o url
  ELSE LET bpath == PathOf(AfterOrigin(base))
           dir == SubSeq(bpath, 1, LastIndexOf(bpath, "/"))
       IN Origin(base) \o (IF dir = <<>> THEN <<"/">> ELSE dir) \o url

\* the listing page of a year: f"{base_url}/{year}-{school_code}-exam-papers/"
year_url(year) ==
  base_url \o <<"/", ToString(year), "-", school_code, "-", "exam-papers", "/">>

---------------------------------------------------------------------------
(* The remote site *)

\* hrefs found on listing pages
hrefA == <<"a", ".", "p", "d", "f">>
hrefRootA == <<"/", "f", "i", "l", "e", "s", "/", "a", ".", "p", "d", "f">>
hrefB == <<"https", ":", "/", "/", "other.host", "/", "b", ".", "P", "D", "F">>
hrefQuery == <<"g", "e", "t", "?", "f", "=", "q", ".", "p", "d", "f">>
hrefIndex == <<"i", "n", "d", "e", "x", ".", "h", "t", "m", "l">>
hrefE == <<"e", ".", "p", "d", "f">>
hrefR == <<"r", ".", "p", "d", "f">>
hrefL == <<"l", ".", "p", "d", "f">>
hrefW == <<"w", ".", "p", "d", "f">>

\* an <a href=...> element, and an <a> element without href
A(h) == [has_href |-> TRUE, href |-> h]
Anchor == [has_href |-> FALSE, href |-> <<>>]

\* the markup of a listing page is the sequence of its <a> elements
Pages ==
  { <<A(hrefIndex), A(hrefA), A(hrefA)>>,
    <<A(hrefE), A(hrefRootA)>>,
    <<A(hrefR), A(hrefR)>>,
    <<A(hrefL), A(hrefA)>>,
    <<A(hrefW)>>,
    <<Anchor, A(hrefB), A(hrefQuery)>> }

\* a listing request that fails with a 404: the body is an error page, which
\* may carry links of its own
FetchFailure == [ok |-> FALSE, text |-> <<A(hrefIndex), A(hrefA)>>]

Responses == {FetchFailure} \cup {[ok |-> TRUE, text |-> p] : p \in Pages}

\* How the download of a URL goes; the same every time it is requested.
\*   "ok"           the body arrives in full
\*   "http_error"   raise_for_status() raises HTTPError
\*   "reset"        the connection breaks while the body is streamed
\*   "bad_length"   the Content-Length header is not a number
\*   "write_error"  the body arrives but the disk refuses a chunk (OSError)
Remote(url) ==
  LET name == basename(url)
  IN CASE name = hrefE -> "http_error"
       [] name = hrefR -> "reset"
       [] name = hrefL -> "bad_length"
       [] name = hrefW -> "write_error"
       [] OTHER -> "ok"

---------------------------------------------------------------------------
(* PDFScraper: the functions without side effects on the model's state *)

None == [none |-> TRUE, text |-> <<>>]
Some(t) == [none |-> FALSE, text |-> t]

\* "if not html_content": None and the empty string are falsy
Falsy(content) == content.none \/ content.text = <<>>

\* get_page_content without raise_for_status(): an error page is returned as text
get_page_content_no_raise(url) ==
  LET hit == {y \in YearRange : year_url(y) = url}
  IN IF hit = {} THEN None ELSE Some(served[CHOOSE y \in hit : TRUE].text)

\* get_page_content: the text of the response, None on RequestException
get_page_content(url) ==
  LET hit == {y \in YearRange : year_url(y) = url /\ served[y].ok}
  IN IF hit = {} THEN None ELSE Some(served[CHOOSE y \in hit : TRUE].text)

RECURSIVE LinksOf(_)
LinksOf(anchors) ==
  IF anchors = <<>> THEN <<>>
  ELSE LET link == Head(anchors)
       IN (IF link.has_href /\ EndsWith(Lower(link.href), DotPdf)
           THEN <<urljoin(base_url, link.href)>>
           ELSE <<>>) \o LinksOf(Tail(anchors))

\* extract_pdf_links
extract_pdf_links(content) ==
  IF Falsy(content) THEN <<>> ELSE LinksOf(content.text)

\* a year folder that does not depend on the year
year_folder_shared(year) == output_folder \o <<"papers">>

\* os.path.join(self.output_folder, year)
year_folder(year) == output_folder \o <<ToString(year)>>

\* os.path.join(year_folder, filename)
filepath(year, url) == year_folder(year) \o <<FilenameOf(url)>>

RECURSIVE Range(_, _)
\* list(range(a, b))
Range(a, b) == IF a >= b THEN <<>> ELSE <<a>> \o Range(a + 1, b)

\* list.sort(reverse=True) of a list of distinct numbers
RECURSIVE SortDescending(_)
SortDescending(s) ==
  IF s = <<>> THEN <<>>
  ELSE LET m == CHOOSE i \in 1..Len(s) : \A j \in 1..Len(s) : s[j] <= s[i]
       IN <<s[m]>> \o SortDescending(SubSeq(s, 1, m - 1) \o SubSeq(s, m + 1, Len(s)))

\* a pool sized by the number of years alone
PoolSizeUncapped == Len(years)

\* min(len(years), self.max_workers)
PoolSize == Min(Len(years), max_workers)

---------------------------------------------------------------------------
(* The filesystem *)

EmptyMap == [p \in {} |-> 0]

\* the content of a file: where it was streamed from, how many chunks it holds
Content(url, n) == [src |-> url, chunks |-> n]

\* a file that was on disk before the scraper was constructed
OldFile == Content(<<"earlier run">>, BodyChunks)

\* what a path that does not exist reads as
NoFile == Content(<<>>, -1)

FullyWritten(c) == c.chunks = BodyChunks

\* os.path.exists(path) of a directory
DirExists(path) == path \in dirs

\* an existence check that never finds the file
FileExistsNever(path) == FALSE

\* os.path.exists(path) of a file
FileExists(path) == path \in DOMAIN files

ReadFile(fs, path) == IF path \in DOMAIN fs THEN fs[path] ELSE NoFile

WriteFile(fs, path, c) ==
  [p \in DOMAIN fs \cup {path} |-> IF p = path THEN c ELSE fs[p]]

\* os.remove(path)
RemoveFile(fs, path) == [p \in DOMAIN fs \ {path} |-> fs[p]]

\* PDFScraper.__init__ leaves the output folder in place
InitialFilesystems ==
  { [dirs |-> {output_folder}, files |-> EmptyMap],
    [dirs |-> {output_folder, year_folder(DefaultEndYear)},
     files |-> WriteFile(EmptyMap,
                         filepath(DefaultEndYear, urljoin(base_url, hrefA)),
                         OldFile)] }

---------------------------------------------------------------------------
(* Initial state: a constructed PDFScraper, before download_all_years *)

NoOutcome == [kind |-> "none", total |-> 0, downloaded |-> 0, error |-> ""]
Returned(t, d) == [kind |-> "returned", total |-> t, downloaded |-> d, error |-> ""]
Raised(e) == [kind |-> "raised", total |-> 0, downloaded |-> 0, error |-> e]

InWindow(y) == start_year <= y /\ y <= end_year

Init ==
  /\ start_year \in YearRange
  /\ end_year \in YearRange
  /\ max_workers \in 1..DefaultMaxWorkers
  /\ served \in [YearRange -> Responses]
  /\ \A y \in YearRange : ~InWindow(y) => served[y] = FetchFailure
  /\ fs0 \in InitialFilesystems
  /\ dirs = fs0.dirs
  /\ files = fs0.files
  /\ use_threads = FALSE
  /\ main_pc = "enter"
  /\ main_exc = ""
  /\ years = <<>>
  /\ k = 1
  /\ summary = EmptyMap
  /\ queue = <<>>
  /\ seq_outcome = [status |-> "none", summary |-> EmptyMap]
  /\ pc = [y \in YearRange |-> "idle"]
  /\ html_content = [y \in YearRange |-> None]
  /\ pdf_links = [y \in YearRange |-> <<>>]
  /\ idx = [y \in YearRange |-> 1]
  /\ successful_downloads = [y \in YearRange |-> 0]
  /\ need_mkdir = [y \in YearRange |-> FALSE]
  /\ outcome = [y \in YearRange |-> NoOutcome]
  /\ started = [y \in YearRange |-> 0]
  /\ calls = [y \in YearRange |-> <<>>]

---------------------------------------------------------------------------
(* download_pdfs_for_year, one instance per year *)

JobDone(y) == pc[y] \in {"returned", "raised"}

\* the jobs a thread is executing
Running == {y \in YearRange : pc[y] \notin {"idle", "queued", "returned", "raised"}}

\* return total, successful
JobReturns(y, t, d) ==
  /\ pc' = [pc EXCEPT ![y] = "returned"]
  /\ outcome' = [outcome EXCEPT ![y] = Returned(t, d)]

\* an exception leaves download_pdfs_for_year
JobRaises(y, e) ==
  /\ pc' = [pc EXCEPT ![y] = "raised"]
  /\ outcome' = [outcome EXCEPT ![y] = Raised(e)]

\* year_url, get_page_content, "if not html_content: return 0, 0"
Fetch(y) ==
  /\ pc[y] = "fetch"
  /\ LET content == get_page_content(year_url(y))
     IN /\ html_content' = [html_content EXCEPT ![y] = content]
        /\ IF Falsy(content)
           THEN JobReturns(y, 0, 0)
           ELSE /\ pc' = [pc EXCEPT ![y] = "extract"]
                /\ UNCHANGED outcome
  /\ UNCHANGED <<config, dirs, files, use_threads, main_pc, main_locals, queue,
                 pdf_links, idx, successful_downloads, need_mkdir, started, calls>>

\* extract_pdf_links, "if not pdf_links: return 0, 0", successful_downloads = 0
Extract(y) ==
  /\ pc[y] = "extract"
  /\ LET links == extract_pdf_links(html_content[y])
     IN /\ pdf_links' = [pdf_links EXCEPT ![y] = links]
        /\ IF links = <<>>
           THEN JobReturns(y, 0, 0)
           ELSE /\ pc' = [pc EXCEPT ![y] = "download"]
                /\ UNCHANGED outcome
  /\ idx' = [idx EXCEPT ![y] = 1]
  /\ successful_downloads' = [successful_downloads EXCEPT ![y] = 0]
  /\ UNCHANGED <<config, dirs, files, use_threads, main_pc, main_locals, queue,
                 html_content, need_mkdir, started, calls>>

\* the link the for loop of the job is at
CurrentUrl(y) == pdf_links[y][idx[y]]

\* a download_pdf invocation as the job sees it: ret is "pending" while the
\* call runs, then "True", "False" or "raised"
Call(url, path) ==
  [url |-> url, path |-> path, ret |-> "pending", fetched |-> FALSE,
   before |-> NoFile, after |-> NoFile]

\* download_pdf is entered: the filename is resolved, os.path.exists(year_folder)
DirCheck(y) ==
  /\ pc[y] = "download"
  /\ calls' = [calls EXCEPT ![y] = Append(@, Call(CurrentUrl(y), filepath(y, CurrentUrl(y))))]
  /\ need_mkdir' = [need_mkdir EXCEPT ![y] = ~DirExists(year_folder(y))]
  /\ pc' = [pc EXCEPT ![y] = IF DirExists(year_folder(y)) THEN "transfer" ELSE "mkdir"]
  /\ UNCHANGED <<config, dirs, files, use_threads, main_pc, main_locals, queue,
                 html_content, pdf_links, idx, successful_downloads, outcome, started>>

SetLast(s, r) == [s EXCEPT ![Len(s)] = r]

\* os.makedirs(year_folder): FileExistsError if the directory is there by now
MakeDir(y) ==
  /\ pc[y] = "mkdir"
  /\ IF DirExists(year_folder(y))
     THEN /\ JobRaises(y, "FileExistsError")
          /\ calls' = [calls EXCEPT ![y] = SetLast(@, [@[Len(@)] EXCEPT !.ret = "raised"])]
          /\ UNCHANGED dirs
     ELSE /\ dirs' = dirs \cup {year_folder(y)}
          /\ pc' = [pc EXCEPT ![y] = "transfer"]
          /\ UNCHANGED <<outcome, calls>>
  /\ UNCHANGED <<config, files, use_threads, main_pc, main_locals, queue,
                 html_content, pdf_links, idx, successful_downloads, need_mkdir, started>>

\* The try block of download_pdf for a path that does not exist, when n
\* chunks reach the disk before the transfer ends: the files afterwards and
\* the exception that ended the block ("" if it ran through).
TryBlock(fs, url, path, n) ==
  CASE Remote(url) = "http_error" -> [files |-> fs, exc |-> "RequestException"]
    [] Remote(url) = "bad_length" -> [files |-> fs, exc |-> "ValueError"]
    [] Remote(url) = "reset" ->
         [files |-> WriteFile(fs, path, Content(url, n)), exc |-> "RequestException"]
    [] Remote(url) = "write_error" ->
         [files |-> WriteFile(fs, path, Content(url, Min(n, BodyChunks - 1))),
          exc |-> "OSError"]
    [] OTHER -> [files |-> WriteFile(fs, path, Content(url, BodyChunks)), exc |-> ""]

\* except requests.exceptions.RequestException: remove the partial download
ExceptBlock(fs, path) == IF path \in DOMAIN fs THEN RemoveFile(fs, path) ELSE fs

\* download_pdf from "if os.path.exists(filepath)" on: the files afterwards,
\* whether a request went out, and "True", "False" or the exception raised
download_pdf(fs, url, path, n) ==
  IF FileExists(path)
  THEN [files |-> fs, fetched |-> FALSE, ret |-> "True"]
  ELSE LET t == TryBlock(fs, url, path, n)
       IN CASE t.exc = "" -> [files |-> t.files, fetched |-> TRUE, ret |-> "True"]
            [] t.exc = "RequestException" ->
                 [files |-> ExceptBlock(t.files, path), fetched |-> TRUE, ret |-> "False"]
            [] OTHER -> [files |-> t.files, fetched |-> TRUE, ret |-> t.exc]

\* how many chunks may reach the disk before the transfer of url ends
Arrivals(url) ==
  IF Remote(url) \in {"reset", "write_error"} THEN 0..BodyChunks ELSE {BodyChunks}

\* The rest of download_pdf and the bookkeeping of the for loop around it.
\* Nothing another thread does can be observed between the existence check
\* and the return, so the transfer is one step; n is the number of chunks
\* that arrive before a transfer that breaks off does so.
Transfer(y) ==
  /\ pc[y] = "transfer"
  /\ \E n \in Arrivals(CurrentUrl(y)) :
       LET url == CurrentUrl(y)
           path == filepath(y, url)
           r == download_pdf(files, url, path, n)
           d == successful_downloads[y] + (IF r.ret = "True" THEN 1 ELSE 0)
           done == [calls[y][Len(calls[y])] EXCEPT
                      !.ret = IF r.ret \in {"True", "False"} THEN r.ret ELSE "raised",
                      !.fetched = r.fetched,
                      !.before = ReadFile(files, path),
                      !.after = ReadFile(r.files, path)]
       IN /\ files' = r.files
          /\ calls' = [calls EXCEPT ![y] = SetLast(@, done)]
          /\ IF r.ret \notin {"True", "False"}
             THEN /\ JobRaises(y, r.ret)
                  /\ UNCHANGED <<idx, successful_downloads>>
             ELSE /\ successful_downloads' = [successful_downloads EXCEPT ![y] = d]
                  /\ idx' = [idx EXCEPT ![y] = @ + 1]
                  /\ IF idx[y] = Len(pdf_links[y])
                     THEN JobReturns(y, Len(pdf_links[y]), d)
                     ELSE /\ pc' = [pc EXCEPT ![y] = "download"]
                          /\ UNCHANGED outcome
  /\ UNCHANGED <<config, dirs, use_threads, main_pc, main_locals, queue,
                 html_content, pdf_links, need_mkdir, started>>

---------------------------------------------------------------------------
(* download_all_years *)

\* summary = {}, years = list(range(start_year, end_year + 1)), years.sort(reverse=True)
Enter ==
  /\ main_pc = "enter"
  /\ years' = SortDescending(Range(start_year, end_year + 1))
  /\ summary' = EmptyMap
  /\ k' = 1
  /\ main_pc' = IF use_threads THEN "pool" ELSE "loop"
  /\ UNCHANGED <<config, dirs, files, use_threads, main_exc, queue, seq_outcome,
                 pc, job_locals, started>>

\* ThreadPoolExecutor(max_workers=...) raises ValueError unless max_workers > 0
OpenPool ==
  /\ main_pc = "pool"
  /\ IF PoolSize <= 0
     THEN /\ main_pc' = "raised"
          /\ main_exc' = "ValueError"
     ELSE /\ main_pc' = "submit"
          /\ UNCHANGED main_exc
  /\ UNCHANGED <<config, dirs, files, use_threads, years, k, summary, queue,
                 seq_outcome, pc, job_locals, started>>

\* executor.submit(self.download_pdfs_for_year, school_code, str(year)), for
\* the next year of the dict comprehension
Submit ==
  /\ main_pc = "submit"
  /\ k <= Len(years)
  /\ queue' = Append(queue, years[k])
  /\ pc' = [pc EXCEPT ![years[k]] = "queued"]
  /\ IF k = Len(years)
     THEN main_pc' = "collect" /\ k' = 1
     ELSE main_pc' = "submit" /\ k' = k + 1
  /\ UNCHANGED <<config, dirs, files, use_threads, main_exc, years, summary,
                 seq_outcome, job_locals, started>>

\* a worker thread of the pool takes the next work item off the queue
StartJob(y) ==
  /\ use_threads
  /\ queue # <<>>
  /\ y = Head(queue)
  /\ Cardinality(Running) < PoolSize
  /\ queue' = Tail(queue)
  /\ pc' = [pc EXCEPT ![y] = "fetch"]
  /\ started' = [started EXCEPT ![y] = @ + 1]
  /\ UNCHANGED <<config, dirs, files, use_threads, main_pc, main_locals, job_locals>>

\* the summary entry of a job that returned (total, successful)
Entry(o) == [total |-> o.total, downloaded |-> o.downloaded]

\* the summary entry of a job whose future raised
ErrorEntry(o) == [total |-> 0, downloaded |-> 0, error |-> o.error]

Put(m, key, v) == [x \in DOMAIN m \cup {key} |-> IF x = key THEN v ELSE m[x]]

\* future.result() without the try/except around it
CollectNoCatch ==
  /\ main_pc = "collect"
  /\ k <= Len(years)
  /\ JobDone(years[k])
  /\ IF pc[years[k]] = "raised"
     THEN /\ main_pc' = "raised"
          /\ main_exc' = outcome[years[k]].error
          /\ UNCHANGED <<summary, k>>
     ELSE /\ summary' = Put(summary, years[k], Entry(outcome[years[k]]))
          /\ k' = k + 1
          /\ UNCHANGED <<main_pc, main_exc>>
  /\ UNCHANGED <<config, dirs, files, use_threads, years,
                 queue, seq_outcome, pc, job_locals, started>>

\* future.result() of the next future of future_to_year, inside try/except
Collect ==
  /\ main_pc = "collect"
  /\ k <= Len(years)
  /\ JobDone(years[k])
  /\ summary' = Put(summary, years[k],
                    IF pc[years[k]] = "raised"
                    THEN ErrorEntry(outcome[years[k]])
                    ELSE Entry(outcome[years[k]]))
  /\ k' = k + 1
  /\ UNCHANGED <<config, dirs, files, use_threads, main_pc, main_exc, years,
                 queue, seq_outcome, pc, job_locals, started>>

\* the sequential loop calls self.download_pdfs_for_year(school_code, str(year))
SeqCall ==
  /\ main_pc = "loop"
  /\ k <= Len(years)
  /\ pc' = [pc EXCEPT ![years[k]] = "fetch"]
  /\ started' = [started EXCEPT ![years[k]] = @ + 1]
  /\ main_pc' = "call"
  /\ UNCHANGED <<config, dirs, files, use_threads, main_locals, queue, job_locals>>

\* the call returns (or raises) in the sequential loop; time.sleep(1)
SeqReturn ==
  /\ main_pc = "call"
  /\ JobDone(years[k])
  /\ IF pc[years[k]] = "raised"
     THEN /\ main_pc' = "raised"
          /\ main_exc' = outcome[years[k]].error
          /\ UNCHANGED <<summary, k>>
     ELSE /\ summary' = Put(summary, years[k], Entry(outcome[years[k]]))
          /\ k' = k + 1
          /\ main_pc' = "loop"
          /\ UNCHANGED main_exc
  /\ UNCHANGED <<config, dirs, files, use_threads, years, queue, seq_outcome,
                 pc, job_locals, started>>

\* return summary (in thread mode after the executor has shut down)
Return ==
  /\ main_pc \in {"loop", "collect"}
  /\ k > Len(years)
  /\ main_pc' = "returned"
  /\ UNCHANGED <<config, dirs, files, use_threads, main_locals, queue,
                 pc, job_locals, started>>

MainDone == main_pc \in {"returned", "raised"}

\* main() with --no-threads has ended; the same scraper configuration is run
\* again without the flag, on the filesystem as it was and the same site
Rerun ==
  /\ ~use_threads
  /\ MainDone
  /\ seq_outcome' = [status |-> main_pc, summary |-> summary]
  /\ use_threads' = TRUE
  /\ dirs' = fs0.dirs
  /\ files' = fs0.files
  /\ main_pc' = "enter"
  /\ main_exc' = ""
  /\ years' = <<>>
  /\ k' = 1
  /\ summary' = EmptyMap
  /\ queue' = <<>>
  /\ pc' = [y \in YearRange |-> "idle"]
  /\ html_content' = [y \in YearRange |-> None]
  /\ pdf_links' = [y \in YearRange |-> <<>>]
  /\ idx' = [y \in YearRange |-> 1]
  /\ successful_downloads' = [y \in YearRange |-> 0]
  /\ need_mkdir' = [y \in YearRange |-> FALSE]
  /\ outcome' = [y \in YearRange |-> NoOutcome]
  /\ started' = [y \in YearRange |-> 0]
  /\ calls' = [y \in YearRange |-> <<>>]
  /\ UNCHANGED config

Next ==
  \/ Enter
  \/ OpenPool
  \/ Submit
  \/ Collect
  \/ SeqCall
  \/ SeqReturn
  \/ Return
  \/ Rerun
  \/ \E y \in YearRange : StartJob(y)
  \/ \E y \in YearRange : Fetch(y)
  \/ \E y \in YearRange : Extract(y)
  \/ \E y \in YearRange : DirCheck(y)
  \/ \E y \in YearRange : MakeDir(y)
  \/ \E y \in YearRange : Transfer(y)

Spec == Init /\ [][Next]_vars

---------------------------------------------------------------------------
(* Properties *)

Window == {y \in YearRange : start_year <= y /\ y <= end_year}

Finished(c) == c.ret # "pending"

\* the calls i < j of year y's job that name the same URL and destination
SameTarget(y, i, j) ==
  /\ i < j
  /\ calls[y][i].url = calls[y][j].url
  /\ calls[y][i].path = calls[y][j].path

Pairs(y) == {p \in (1..Len(calls[y])) \X (1..Len(calls[y])) : SameTarget(y, p[1], p[2])}

\* C1: for a year range start_year..end_year, with the same site and the same
\* initial filesystem, the call with use_threads=True and the call with
\* use_threads=False both return a summary, and the two have the same keys
\* and, per year, the same total and downloaded.
C1_ModesAgree ==
  (use_threads /\ MainDone /\ start_year <= end_year) =>
    /\ seq_outcome.status = "returned"
    /\ main_pc = "returned"
    /\ DOMAIN summary = DOMAIN seq_outcome.summary
    /\ \A y \in DOMAIN summary :
         /\ summary[y].total = seq_outcome.summary[y].total
         /\ summary[y].downloaded = seq_outcome.summary[y].downloaded

\* C2: after a download_pdf call that did not complete the download, the
\* destination path is absent or holds a fully written file.
C2_NoPartialFile ==
  \A y \in YearRange : \A i \in 1..Len(calls[y]) :
    calls[y][i].ret \in {"False", "raised"} =>
      \/ calls[y][i].after = NoFile
      \/ FullyWritten(calls[y][i].after)

\* C3 as stated: two download_pdf calls with the same URL and destination
\* make exactly one network fetch; the second finds the destination present,
\* makes no request, leaves the file as it is and returns True.
C3_ExactlyOneFetch ==
  \A y \in YearRange : \A p \in Pairs(y) :
    LET first == calls[y][p[1]]
        second == calls[y][p[2]]
    IN (Finished(first) /\ Finished(second)) =>
         /\ first.fetched /\ ~second.fetched
         /\ second.before # NoFile
         /\ second.after = second.before
         /\ second.ret = "True"

\* C3 amended: when the first of two download_pdf calls with the same URL and
\* destination returns True, the second finds the destination present, makes
\* no request, leaves the file as it is and returns True; the first made a
\* request exactly if the destination was absent before it.
C3_SecondCallAfterSuccess ==
  \A y \in YearRange : \A p \in Pairs(y) :
    LET first == calls[y][p[1]]
        second == calls[y][p[2]]
    IN (first.ret = "True" /\ Finished(second)) =>
         /\ ~second.fetched
         /\ second.before # NoFile
         /\ second.after = second.before
         /\ second.ret = "True"
         /\ first.fetched <=> (first.before = NoFile)

C3_Witness ==
  \E y \in YearRange : \E p \in Pairs(y) :
    /\ calls[y][p[1]].ret = "True"
    /\ calls[y][p[1]].fetched
    /\ Finished(calls[y][p[2]])

\* C4: in thread mode a job that raises does not abort the run: its summary
\* entry is {total: 0, downloaded: 0, error: message}, the entry of a job that
\* returned holds that job's counts, download_all_years returns only with
\* every job finished, and while it waits for a future some job is running or
\* a free worker can start the next one.
C4_JobExceptionContained ==
  use_threads =>
    /\ (\E y \in YearRange : pc[y] = "raised") => main_pc # "raised"
    /\ \A y \in DOMAIN summary :
         /\ pc[y] = "raised" =>
              summary[y] = [total |-> 0, downloaded |-> 0, error |-> outcome[y].error]
         /\ pc[y] # "raised" =>
              /\ pc[y] = "returned"
              /\ summary[y] = [total |-> outcome[y].total,
                               downloaded |-> outcome[y].downloaded]
    /\ main_pc = "returned" =>
         /\ DOMAIN summary = Window
         /\ \A y \in Window : JobDone(y)
    /\ (main_pc = "collect" /\ k <= Len(years) /\ ~JobDone(years[k])) =>
         \/ Running # {}
         \/ queue # <<>> /\ Cardinality(Running) < Min(Cardinality(Window), max_workers)

C4_Witness ==
  /\ use_threads
  /\ main_pc = "returned"
  /\ \E y, z \in YearRange :
       /\ pc[y] = "raised"
       /\ pc[z] = "returned"
       /\ outcome[z].total > 0

\* C5: a job whose listing fetch fails returns (0, 0), calls download_pdf for
\* nothing, and leaves the year's directory existing only if it existed
\* before.
C5_FailedListing ==
  \A y \in YearRange :
    (started[y] > 0 /\ ~served[y].ok) =>
      /\ calls[y] = <<>>
      /\ JobDone(y) =>
           /\ outcome[y] = [kind |-> "returned", total |-> 0, downloaded |-> 0, error |-> ""]
           /\ (output_folder \o <<ToString(y)>>) \in dirs
                => (output_folder \o <<ToString(y)>>) \in fs0.dirs

C5_Witness ==
  \E y \in YearRange : started[y] > 0 /\ ~served[y].ok /\ JobDone(y)

\* C6: a job whose page has n >= 1 links calls download_pdf once per link in
\* document order, whatever the earlier calls reported, and returns (n, d)
\* with d the number of calls that returned True.
C6_OncePerLink ==
  \A y \in YearRange :
    (JobDone(y) /\ Len(pdf_links[y]) >= 1) =>
      /\ Len(calls[y]) = Len(pdf_links[y])
      /\ \A i \in 1..Len(calls[y]) : calls[y][i].url = pdf_links[y][i]
      /\ outcome[y].kind = "returned"
      /\ outcome[y].total = Len(pdf_links[y])
      /\ outcome[y].downloaded =
           Cardinality({i \in 1..Len(calls[y]) : calls[y][i].ret = "True"})
      /\ outcome[y].downloaded <= outcome[y].total

\* the anchors' .pdf hrefs, each resolved against the URL of the page
RECURSIVE ResolvedAgainst(_, _)
ResolvedAgainst(page, anchors) ==
  IF anchors = <<>> THEN <<>>
  ELSE (IF Head(anchors).has_href /\ EndsWith(Lower(Head(anchors).href), DotPdf)
        THEN <<urljoin(page, Head(anchors).href)>>
        ELSE <<>>) \o ResolvedAgainst(page, Tail(anchors))

\* C7: the links extracted from a listing page are, in document order and
\* with duplicates, the .pdf hrefs resolved against the URL of that page;
\* each is absolute and has a path that ends in .pdf.
C7_LinksResolvedAgainstPage ==
  \A y \in YearRange :
    pc[y] \in {"download", "mkdir", "transfer", "returned", "raised"} =>
      /\ pdf_links[y] = IF html_content[y].none THEN <<>>
                        ELSE ResolvedAgainst(year_url(y), html_content[y].text)
      /\ \A i \in 1..Len(pdf_links[y]) :
           /\ HasScheme(pdf_links[y][i])
           /\ EndsWith(Lower(PathOf(AfterOrigin(pdf_links[y][i]))), DotPdf)

\* C8: in thread mode at most min(number of years, max_workers) jobs run at
\* once, no job is started twice, every job has been started once when the
\* run returns, and a job has at most one download_pdf call in progress.
C8_BoundedPool ==
  use_threads =>
    /\ Cardinality(Running) <= Min(Cardinality(Window), max_workers)
    /\ \A y \in YearRange : started[y] <= 1
    /\ main_pc = "returned" => \A y \in Window : started[y] = 1
    /\ \A y \in YearRange :
         Cardinality({i \in 1..Len(calls[y]) : ~Finished(calls[y][i])}) <= 1

C8_Witness ==
  /\ use_threads
  /\ queue # <<>>
  /\ Cardinality(Running) = max_workers
  /\ \E y \in Running : pc[y] = "transfer"

\* C9: in thread mode os.makedirs never raises FileExistsError: no two jobs
\* are about to create the same directory, and the output folder exists
\* throughout.
C9_NoDirectoryRace ==
  use_threads =>
    /\ \A y \in YearRange : outcome[y].error # "FileExistsError"
    /\ \A y \in YearRange : pc[y] = "mkdir" => (output_folder \o <<ToString(y)>>) \notin dirs
    /\ output_folder \in dirs

C9_Witness ==
  /\ use_threads
  /\ \E y, z \in YearRange : y # z /\ pc[y] = "mkdir" /\ pc[z] = "mkdir"

\* C10: in either mode download_all_years returns a summary whose keys are
\* exactly the years from start_year to end_year, each entry written after
\* that year's job has finished; for start_year > end_year it returns an empty
\* summary.
C10_SummaryKeys ==
  /\ MainDone =>
       /\ main_pc = "returned"
       /\ DOMAIN summary = Window
  /\ \A y \in DOMAIN summary : JobDone(y)

====
